---- MODULE Spec2Model ----
(***************************************************************************)
(* The /query request path of the RAG service: process_query (api.py),     *)
(* the rate limiter, RAGWorkflow._execute and its retry wrapper            *)
(* (workflow/rag_workflow.py) and the five components' _execute entry      *)
(* points (components/*.py).                                               *)
(*                                                                         *)
(* Scores are integers in tenths (0.7 is 7).  A request is handled to      *)
(* completion before the next one starts: process_query is an async        *)
(* handler that calls the synchronous workflow, so it never yields.        *)
(***************************************************************************)
EXTENDS Integers, Sequences, FiniteSets, TLC

VARIABLES
    max_retries,          \* RAGWorkflow.max_retries
    completion_threshold, \* RAGWorkflow.completion_threshold (tenths)
    requests,             \* RateLimiter.requests: client -> admission times
    now,                  \* time.time()
    served,               \* number of /query requests received so far
    pc,                   \* "idle" | "call" | "sleep" | "done"
    api_key,              \* process_query: the client of the current request
    query,                \* process_query: request.query
    scn,                  \* how the external providers behave during this run
    stage,                \* the component _execute_with_retry is running
    attempt,              \* _execute_with_retry: attempt
    last_error,           \* _execute_with_retry: last_error
    step_logs,            \* _execute: step_logs
    intent,               \* _execute: intent
    completion_score,     \* _execute: completion_score
    invocations,          \* history: component._execute calls of this run
    sleeps,               \* history: time.sleep arguments of this run
    sink_steps,           \* history: arguments of logger.log_step in this run
    sink_workflows,       \* history: arguments of logger.log_workflow
    exit,                 \* how _execute ended: "none" while running
    response,             \* what _execute returned as response
    wf_record,            \* the WorkflowLog BaseWorkflow.execute finalised
    workflow_log,         \* process_query: local workflow_log
    http                  \* what process_query answered

vars == <<max_retries, completion_threshold, requests, now, served, pc,
          api_key, query, scn, stage, attempt, last_error, step_logs, intent,
          completion_score, invocations, sleeps, sink_steps, sink_workflows,
          exit, response, wf_record, workflow_log, http>>

(* The components taken one at a time: each has a specification of its own
   in which its inputs are drawn and it is run; in the specification of the
   request path these variables stay parked. *)
VARIABLES
    semantic_results,     \* VectorRetriever.retrieve: semantic_search's results
    keyword_results,      \* VectorRetriever.retrieve: keyword_search's results
    fused,                \* VectorRetriever.retrieve: what rerank returned
    rr_pc,                \* "parked" | "ready" | "done"
    ck_reply,             \* check_completion: what the provider does
    ck_threshold,         \* the threshold of the gate that follows the check
    ck_result,            \* check_completion: the value returned
    ck_next,              \* _execute: where the gate sends the run
    rf_query,             \* reformulate: the query (and cache key) under test
    rf_clock,             \* time.time()
    rf_entry,             \* QueryCache: the cache file of rf_query
    rf_prev,              \* history: the call of reformulate before the last
    rf_last,              \* history: the last call of reformulate
    rf_n,                 \* number of reformulate calls so far
    cc_clock,             \* the two caches side by side: time.time()
    cc_files,             \* QueryCache: key -> cache file
    cc_memory,            \* MemoryCache.cache: key -> (value, timestamp)
    cc_written,           \* history: key -> the most recent set(key)
    cc_last,              \* history: the last operation and its two results
    gn_context,           \* generate_answer: the context it is given
    gn_reply,             \* generate_answer: what the provider does
    gn_response,          \* generate_answer: the RAGResponse returned
    gn_pc,                \* "parked" | "ready" | "done"
    in_documents,         \* add_documents: the documents it is given
    in_points,            \* add_documents: the points handed to upsert
    in_pc,                \* "parked" | "ready" | "done"
    th_clock,             \* threads on one MemoryCache: time.time()
    th_cache,             \* MemoryCache.cache
    th_pc,                \* thread -> the statement it is about to execute
    th_local,             \* thread -> its operation, locals and outcome
    th_written,           \* history: the (key, value) pairs set so far
    lm_clock,             \* one RateLimiter called on its own: time.time()
    lm_requests,          \* RateLimiter.requests: client -> kept times
    lm_admitted,          \* history: client -> every time it was admitted
    lm_last               \* history: the last call of is_allowed

rerankVars == <<semantic_results, keyword_results, fused, rr_pc>>
checkerVars == <<ck_reply, ck_threshold, ck_result, ck_next>>
reformVars == <<rf_query, rf_clock, rf_entry, rf_prev, rf_last, rf_n>>
cachesVars == <<cc_clock, cc_files, cc_memory, cc_written, cc_last>>
generatorVars == <<gn_context, gn_reply, gn_response, gn_pc>>
ingestVars == <<in_documents, in_points, in_pc>>
threadsVars == <<th_clock, th_cache, th_pc, th_local, th_written>>
limiterVars == <<lm_clock, lm_requests, lm_admitted, lm_last>>
allVars == <<vars, rerankVars, checkerVars, reformVars, cachesVars,
             generatorVars, ingestVars, threadsVars, limiterVars>>

\* What an action of one part leaves alone: the variables of the other parts
besidesWorkflow ==
    <<rerankVars, checkerVars, reformVars,
      cachesVars, generatorVars, ingestVars, threadsVars, limiterVars>>
besidesRerank ==
    <<vars, checkerVars, reformVars,
      cachesVars, generatorVars, ingestVars, threadsVars, limiterVars>>
besidesChecker ==
    <<vars, rerankVars, reformVars,
      cachesVars, generatorVars, ingestVars, threadsVars, limiterVars>>
besidesReform ==
    <<vars, rerankVars, checkerVars,
      cachesVars, generatorVars, ingestVars, threadsVars, limiterVars>>
besidesCaches ==
    <<vars, rerankVars, checkerVars,
      reformVars, generatorVars, ingestVars, threadsVars, limiterVars>>
besidesGenerator ==
    <<vars, rerankVars, checkerVars,
      reformVars, cachesVars, ingestVars, threadsVars, limiterVars>>
besidesIngest ==
    <<vars, rerankVars, checkerVars,
      reformVars, cachesVars, generatorVars, threadsVars, limiterVars>>
besidesThreads ==
    <<vars, rerankVars, checkerVars,
      reformVars, cachesVars, generatorVars, ingestVars, limiterVars>>
besidesLimiter ==
    <<vars, rerankVars, checkerVars,
      reformVars, cachesVars, generatorVars, ingestVars, threadsVars>>

-----------------------------------------------------------------------------
(* Bounds of the model *)

MaxRetries == 3     \* max_retries is drawn from 1..MaxRetries
MaxRequests == 2    \* /query requests in one behaviour
MaxTime == 1        \* latest time at which a request may arrive
QuotaBound == 1     \* RateLimiter.max_requests, scaled down (api.py sets 100)
WindowBound == 2    \* RateLimiter.window, scaled down (api.py sets 60 seconds)

(* Program constants *)

DefaultThreshold == 7   \* Settings.completion_threshold, 0.7
CheckerDefault == 5     \* check_completion's value on error, 0.5
MissingScore == 0       \* check_completion: result.get("score", 0.0)
ScoreMin == 0           \* lower clamp of check_completion
ScoreMax == 10          \* upper clamp of check_completion, 1.0

Clients == {"anonymous", "key1"}
Queries == {"q1"}
Thresholds == {CheckerDefault, DefaultThreshold}
Stages == <<"route", "reformulate", "retrieve", "check", "generate">>
StageSet == {Stages[i] : i \in 1..Len(Stages)}

None == [kind |-> "None"]

-----------------------------------------------------------------------------
(* The providers' behaviour during one run *)

\* Text is a sequence of one-character strings, so that trimming and
\* upper-casing are computed
WhiteSpace == {" ", "\n"}
LowerLetters == <<"a", "c", "e", "f", "i", "j", "l", "n", "r", "s", "t", "w", "y">>
UpperLetters == <<"A", "C", "E", "F", "I", "J", "L", "N", "R", "S", "T", "W", "Y">>

TokANSWER == <<"A", "N", "S", "W", "E", "R">>
TokCLARIFY == <<"C", "L", "A", "R", "I", "F", "Y">>
TokREJECT == <<"R", "E", "J", "E", "C", "T">>

\* What the router's provider does: the call fails (it raises, or the reply
\* has no content to read), or it replies with a text
RouterReplies ==
    {[kind |-> "text", content |-> TokANSWER],
     [kind |-> "text", content |-> <<" ", "a", "n", "s", "w", "e", "r", "\n">>],
     [kind |-> "text", content |-> <<"C", "l", "a", "r", "i", "f", "y">>],
     [kind |-> "text", content |-> <<"R", "E", "J", "E", "C", "T", " ">>],
     [kind |-> "text", content |-> <<"A", "N", " ", "S", "W", "E", "R">>],
     [kind |-> "text", content |-> <<"Y", "E", "S">>],
     [kind |-> "error", content |-> <<>>]}

\* What the stages after reformulation would meet: the store failing on the
\* first retrieve calls, the number of fused results, the checker's and the
\* generator's provider
Downstream ==
    {[retrieve_raises |-> 0, hits |-> 2, generator_fails |-> FALSE,
      checker |-> [kind |-> "score", score |-> DefaultThreshold]],
     [retrieve_raises |-> 0, hits |-> 2, generator_fails |-> FALSE,
      checker |-> [kind |-> "score", score |-> 4]],
     [retrieve_raises |-> 0, hits |-> 2, generator_fails |-> FALSE,
      checker |-> [kind |-> "error", score |-> 0]],
     [retrieve_raises |-> 0, hits |-> 2, generator_fails |-> TRUE,
      checker |-> [kind |-> "score", score |-> 12]],
     [retrieve_raises |-> 1, hits |-> 2, generator_fails |-> FALSE,
      checker |-> [kind |-> "score", score |-> DefaultThreshold]],
     [retrieve_raises |-> 0, hits |-> 1, generator_fails |-> FALSE,
      checker |-> [kind |-> "score", score |-> DefaultThreshold]]}

-----------------------------------------------------------------------------
(* RateLimiter.is_allowed *)

Live(reqs, t, window) == SelectSeq(reqs, LAMBDA r : t - r < window)

is_allowed_recording_all(reqs, t) ==
    LET kept == Live(reqs, t, WindowBound)
    IN  IF Len(kept) >= QuotaBound
          THEN [allowed |-> FALSE, requests |-> Append(kept, t)]
          ELSE [allowed |-> TRUE, requests |-> Append(kept, t)]

is_allowed(reqs, t) ==
    LET kept == Live(reqs, t, WindowBound)
    IN  IF Len(kept) >= QuotaBound
          THEN [allowed |-> FALSE, requests |-> kept]
          ELSE [allowed |-> TRUE, requests |-> Append(kept, t)]

-----------------------------------------------------------------------------
(* The components' _execute: what each returns, or that it raises *)

StepLog(name, ok, err) == [step_name |-> name, success |-> ok, error |-> err]

\* str.upper, one character
UpperChar(c) ==
    IF \E i \in 1..Len(LowerLetters) : LowerLetters[i] = c
      THEN UpperLetters[CHOOSE i \in 1..Len(LowerLetters) : LowerLetters[i] = c]
      ELSE c

upper(s) == [i \in 1..Len(s) |-> UpperChar(s[i])]

\* str.strip: leading and trailing whitespace removed
RECURSIVE lstrip(_)
lstrip(s) == IF s # <<>> /\ s[1] \in WhiteSpace THEN lstrip(Tail(s)) ELSE s

RECURSIVE rstrip(_)
rstrip(s) ==
    IF s # <<>> /\ s[Len(s)] \in WhiteSpace
      THEN rstrip(SubSeq(s, 1, Len(s) - 1)) ELSE s

strip(s) == rstrip(lstrip(s))

\* QueryIntent[decision]
QueryIntent(decision) ==
    CASE decision = TokANSWER -> "ANSWER"
      [] decision = TokCLARIFY -> "CLARIFY"
      [] decision = TokREJECT -> "REJECT"

\* (mutant) the reply is upper-cased but not trimmed
route_query_untrimmed(reply) ==
    IF reply.kind = "error"
      THEN <<"ANSWER", StepLog("route_query", FALSE, "provider error")>>
      ELSE IF upper(reply.content) \in {TokANSWER, TokCLARIFY, TokREJECT}
             THEN <<QueryIntent(upper(reply.content)),
                    StepLog("route_query", TRUE, "")>>
             ELSE <<"CLARIFY",
                    StepLog("route_query", FALSE, "Invalid response from router")>>

\* LLMRequestRouter.route_query: never raises, returns (intent, StepLog)
route_query(reply) ==
    IF reply.kind = "error"
      THEN <<"ANSWER", StepLog("route_query", FALSE, "provider error")>>
      ELSE LET decision == upper(strip(reply.content))
           IN  IF decision \in {TokANSWER, TokCLARIFY, TokREJECT}
                 THEN <<QueryIntent(decision), StepLog("route_query", TRUE, "")>>
                 ELSE <<"CLARIFY",
                        StepLog("route_query", FALSE,
                                "Invalid response from router")>>

\* LLMCompletionChecker.check_completion: a float, clamped, 0.5 on error
ClampFromBelow(x) == IF x < ScoreMin THEN ScoreMin ELSE x

Clamp(x) == IF x < ScoreMin THEN ScoreMin ELSE IF x > ScoreMax THEN ScoreMax ELSE x

\* The provider's reply is one of: "error" (the call raises), "not_json"
\* (json.loads raises), "bad_score" (float() of the score raises), "no_score"
\* (an object without the field: result.get("score", 0.0)), "score"
check_completion(reply) ==
    CASE reply.kind \in {"error", "not_json", "bad_score"} -> CheckerDefault
      [] reply.kind = "no_score" -> Clamp(MissingScore)
      [] reply.kind = "score" -> Clamp(reply.score)

\* LLMAnswerGenerator.generate_answer: always a RAGResponse
generate_answer(fails) ==
    IF fails
      THEN [kind |-> "RAGResponse", confidence_score |-> 0, error |-> TRUE]
      ELSE [kind |-> "RAGResponse", confidence_score |-> 9, error |-> FALSE]

\* (mutant) the router lets its provider's error out
RaisesWithRouter(st, s, att) ==
    CASE st = "route"       -> s.router.kind = "error"
      [] st = "reformulate" -> att < s.reform_raises
      [] st = "retrieve"    -> att < s.retrieve_raises
      [] OTHER              -> FALSE

\* Does the call of component st at this attempt raise?  The router, the
\* checker and the generator catch every Exception of their provider call.
\* reformulate calls self.cache.get before its try (the key's encode() and the
\* cache file's stat() can raise), and retrieve has no try at all.
Raises(st, s, att) ==
    CASE st = "reformulate" -> att < s.reform_raises     \* cache.get outside the try
      [] st = "retrieve"    -> att < s.retrieve_raises   \* no try in retrieve
      [] OTHER              -> FALSE                     \* catch-all inside

ErrorOf(st) ==
    CASE st = "reformulate" -> "cache read failed"
      [] st = "retrieve"    -> "store unavailable"
      [] OTHER              -> "unexpected"

\* The value component st returns: [shape, len, first, second]
\* shape is what Python sees when the caller unpacks it into two names.
Returned(st, s, q) ==
    CASE st = "route" ->
           [shape |-> "tuple", len |-> 2,
            first |-> [kind |-> "intent", intent |-> route_query(s.router)[1]],
            second |-> route_query(s.router)[2]]
      [] st = "reformulate" ->
           [shape |-> "object", len |-> 0,
            first |-> [kind |-> "ReformulatedQuery", refined_text |-> q],
            second |-> None]
      [] st = "retrieve" ->
           [shape |-> "list", len |-> s.hits,
            first |-> [kind |-> "SearchResult", rank |-> 1],
            second |-> [kind |-> "SearchResult", rank |-> 2]]
      [] st = "check" ->
           [shape |-> "float", len |-> 0,
            first |-> [kind |-> "score", score |-> check_completion(s.checker)],
            second |-> None]
      [] st = "generate" ->
           [shape |-> "object", len |-> 0,
            first |-> generate_answer(s.generator_fails),
            second |-> None]

\* "a, b = value": a tuple or list unpacks iff it has exactly two items
Unpackable(ret) == ret.shape \in {"tuple", "list"} /\ ret.len = 2

UnpackError(ret) ==
    IF ret.shape \in {"tuple", "list"}
      THEN "ValueError: wrong number of values to unpack"
      ELSE "TypeError: cannot unpack non-iterable object"

-----------------------------------------------------------------------------
(* RAGWorkflow: the retry loop's test, the two gates, the stage order *)

\* (mutant) the loop gives up one attempt early
MayRetryEarly(att, retries) == att < retries - 2

\* _execute_with_retry: "if attempt < retries - 1" (sleep and try again)
MayRetry(att, retries) == att < retries - 1

\* (mutant) the first wait is already doubled
BackoffFromTwo(att) == 2 ^ (att + 1)

\* _execute_with_retry: wait_time = 2 ** attempt
Backoff(att) == 2 ^ att

\* (mutant) the sink drops what it is handed
log_step_dropping(sink, step_log) == sink

\* JsonLogger.log_step: one file written per call, named by the step_id
log_step(sink, step_log) == Append(sink, step_log)

\* (mutant) only REJECT stops the run
IntentStopsOnReject(i) == i = "REJECT"

\* _execute: "if intent != QueryIntent.ANSWER: return None, step_logs"
IntentStops(i) == i # "ANSWER"

\* _execute: "if completion_score < self.completion_threshold: return None, ..."
ScoreStops(score, threshold) == score < threshold

\* (mutant) a declined run hands back a value in place of None
DeclinedResponseValue == [kind |-> "QueryIntent"]

\* _execute: the response of a declined run
DeclinedResponse == None

\* _execute: what follows the stage st once its result has been unpacked
AfterStage(st, ret, threshold) ==
    CASE st = "route" ->
           IF IntentStops(ret.first.intent) THEN "declined_intent" ELSE "reformulate"
      [] st = "reformulate" -> "retrieve"
      [] st = "retrieve" -> "check"
      [] st = "check" ->
           IF ScoreStops(ret.first.score, threshold)
             THEN "declined_context" ELSE "generate"
      [] st = "generate" -> "answered"

\* _execute: the response returned at the exit "how"
ResponseAt(how, ret) == IF how = "answered" THEN ret.first ELSE DeclinedResponse

-----------------------------------------------------------------------------
(* BaseWorkflow.execute: the WorkflowLog finalised at the exit of a run *)

WorkflowLog(id, q, trail, resp, raised) ==
    [kind |-> "WorkflowLog", workflow_id |-> id, query |-> q, step_ids |-> trail,
     success |-> (~raised /\ resp.kind # "None"), final_response |-> resp]

-----------------------------------------------------------------------------
(* process_query: the three answers of the front end *)

NoHttp == [status |-> 0]

HttpRateLimited ==
    [status |-> 429, detail |-> "Rate limit exceeded. Please try again later."]

HttpAnswer(resp) == [status |-> 200, body |-> resp]

\* (mutant) the declined HTTPException is not re-raised as it is, and ends in
\* the "except Exception" branch
HttpDeclinedAsFailure(wl) ==
    [status |-> 500,
     detail |-> [error |-> "Internal server error", message |-> "400"]]

HttpDeclined(wl) ==
    [status |-> 400,
     detail |-> [error |-> "Could not process query",
                 reason |-> "Query may need clarification or is out of scope",
                 workflow_id |-> wl.workflow_id]]

HttpFailure(msg) ==
    [status |-> 500,
     detail |-> [error |-> "Internal server error", message |-> msg]]

-----------------------------------------------------------------------------
RerankParked ==
    /\ semantic_results = <<>>
    /\ keyword_results = <<>>
    /\ fused = <<>>
    /\ rr_pc = "parked"

CheckerParked ==
    /\ ck_reply = [kind |-> "error", score |-> 0]
    /\ ck_threshold = DefaultThreshold
    /\ ck_result = None
    /\ ck_next = "parked"

ReformParked ==
    /\ rf_query = <<>>
    /\ rf_clock = 0
    /\ rf_entry = None
    /\ rf_prev = None
    /\ rf_last = None
    /\ rf_n = 0

CachesParked ==
    /\ cc_clock = 0
    /\ cc_files = <<>>
    /\ cc_memory = <<>>
    /\ cc_written = <<>>
    /\ cc_last = None

GeneratorParked ==
    /\ gn_context = <<>>
    /\ gn_reply = None
    /\ gn_response = None
    /\ gn_pc = "parked"

IngestParked ==
    /\ in_documents = <<>>
    /\ in_points = <<>>
    /\ in_pc = "parked"

ThreadsParked ==
    /\ th_clock = 0
    /\ th_cache = <<>>
    /\ th_pc = <<>>
    /\ th_local = <<>>
    /\ th_written = {}

LimiterParked ==
    /\ lm_clock = 0
    /\ lm_requests = <<>>
    /\ lm_admitted = <<>>
    /\ lm_last = None

NoScenario ==
    [router |-> [kind |-> "text", content |-> TokANSWER], reform_raises |-> 0,
     retrieve_raises |-> 0, hits |-> 0,
     checker |-> [kind |-> "error", score |-> 0], generator_fails |-> FALSE]

Scenario(r, k, d) ==
    [router |-> r,
     reform_raises |-> k,            \* leading reformulate calls that raise
     retrieve_raises |-> d.retrieve_raises,
     hits |-> d.hits,
     checker |-> d.checker,
     generator_fails |-> d.generator_fails]

\* A run that the router sends on has the later providers to script; a run
\* that stops at the router calls none of them
Scenarios ==
    {Scenario(r, k, d) :
        r \in {x \in RouterReplies : route_query(x)[1] = "ANSWER"},
        k \in 0..MaxRetries, d \in Downstream}
    \cup {Scenario(r, 0, NoScenario) :
              r \in {x \in RouterReplies : route_query(x)[1] # "ANSWER"}}

\* No request has been received yet
NoRequest ==
    /\ requests = [c \in Clients |-> <<>>]
    /\ now = 0
    /\ served = 0
    /\ pc = "idle"
    /\ api_key = "anonymous"
    /\ query = "q1"
    /\ scn = NoScenario
    /\ stage = "route"
    /\ attempt = 0
    /\ last_error = ""
    /\ step_logs = <<>>
    /\ intent = ""
    /\ completion_score = 0
    /\ invocations = <<>>
    /\ sleeps = <<>>
    /\ sink_steps = <<>>
    /\ sink_workflows = <<>>
    /\ exit = "none"
    /\ response = None
    /\ wf_record = None
    /\ workflow_log = None
    /\ http = NoHttp

Init ==
    /\ max_retries \in 1..MaxRetries
    /\ completion_threshold \in Thresholds
    /\ NoRequest
    /\ RerankParked
    /\ CheckerParked
    /\ ReformParked
    /\ CachesParked
    /\ GeneratorParked
    /\ IngestParked
    /\ ThreadsParked
    /\ LimiterParked

\* The request path while a component is examined on its own
WorkflowParked ==
    /\ max_retries = MaxRetries
    /\ completion_threshold = DefaultThreshold
    /\ NoRequest

\* Time passes between requests
Tick ==
    /\ pc = "idle"
    /\ now < MaxTime
    /\ now' = now + 1
    /\ UNCHANGED <<max_retries, completion_threshold, requests, served, pc,
                   api_key, query, scn, stage, attempt, last_error, step_logs,
                   intent, completion_score, invocations, sleeps, sink_steps,
                   sink_workflows, exit, response, wf_record, workflow_log, http>>
    /\ UNCHANGED besidesWorkflow

\* process_query up to the first component call: the rate limiter, then
\* workflow.execute enters _execute and the retry loop of the router

ProcessQuery(c, q, s) ==
    /\ pc = "idle"
    /\ served < MaxRequests
    /\ now <= MaxTime
    /\ LET lim == is_allowed(requests[c], now)
       IN  /\ requests' = [requests EXCEPT ![c] = lim.requests]
           /\ pc' = IF lim.allowed THEN "call" ELSE "done"
           /\ scn' = IF lim.allowed THEN s ELSE NoScenario
           /\ http' = IF lim.allowed THEN NoHttp ELSE HttpRateLimited
    /\ served' = served + 1
    /\ api_key' = c
    /\ query' = q
    /\ stage' = "route"
    /\ attempt' = 0
    /\ last_error' = ""
    /\ step_logs' = <<>>
    /\ intent' = ""
    /\ completion_score' = 0
    /\ invocations' = <<>>
    /\ sleeps' = <<>>
    /\ sink_steps' = <<>>
    /\ sink_workflows' = <<>>
    /\ exit' = "none"
    /\ response' = None
    /\ wf_record' = None
    /\ workflow_log' = None
    /\ UNCHANGED <<max_retries, completion_threshold, now>>
    /\ UNCHANGED besidesWorkflow

\* An exception leaves _execute: execute finalises the WorkflowLog and lets it
\* pass; process_query's workflow_log is still None in "except Exception"

Fail(msg, how, trail) ==
    /\ exit' = how
    /\ response' = None
    /\ wf_record' = WorkflowLog(served, query, trail, None, TRUE)
    /\ workflow_log' = None
    /\ sink_workflows' = IF workflow_log.kind # "None"
                           THEN Append(sink_workflows, workflow_log)
                           ELSE sink_workflows
    /\ http' = HttpFailure(msg)
    /\ pc' = "done"

\* _execute returns: execute hands back (response, WorkflowLog); process_query
\* logs the workflow and answers 200 or the declined 400
Finish(resp, how, trail) ==
    LET wl == WorkflowLog(served, query, trail, resp, FALSE)
    IN  /\ exit' = how
        /\ response' = resp
        /\ wf_record' = wl
        /\ workflow_log' = wl
        /\ sink_workflows' = Append(sink_workflows, wl)
        /\ http' = IF resp.kind = "None" THEN HttpDeclined(wl) ELSE HttpAnswer(resp)
        /\ pc' = "done"

\* One attempt of _execute_with_retry: component._execute(...) is called.  If
\* it raises, the loop sleeps or re-raises; if it returns, _execute unpacks the
\* result, logs the step, and goes on to the gate and the next stage.
Invoke ==
    /\ pc = "call"
    /\ invocations' = Append(invocations, [stage |-> stage,
                                            raised |-> Raises(stage, scn, attempt)])
    /\ IF Raises(stage, scn, attempt)
         THEN /\ last_error' = ErrorOf(stage)
              /\ IF MayRetry(attempt, max_retries)
                   THEN /\ pc' = "sleep"
                        /\ UNCHANGED <<exit, response, wf_record, workflow_log,
                                       sink_workflows, http>>
                   ELSE Fail(ErrorOf(stage), "exhausted", step_logs)
              /\ UNCHANGED <<stage, attempt, step_logs, sink_steps, intent,
                             completion_score>>
         ELSE LET ret == Returned(stage, scn, query)
              IN  IF ~Unpackable(ret)
                    THEN /\ Fail(UnpackError(ret), "unpack_error", step_logs)
                         /\ UNCHANGED <<stage, attempt, last_error, step_logs,
                                        sink_steps, intent, completion_score>>
                    ELSE LET nxt == AfterStage(stage, ret, completion_threshold)
                             trail == Append(step_logs, ret.second)
                         IN  /\ step_logs' = trail
                             /\ sink_steps' = log_step(sink_steps, ret.second)
                             /\ intent' = IF stage = "route"
                                            THEN ret.first.intent ELSE intent
                             /\ completion_score' = IF stage = "check"
                                                      THEN ret.first.score
                                                      ELSE completion_score
                             /\ UNCHANGED last_error
                             /\ IF nxt \in StageSet
                                  THEN /\ stage' = nxt
                                       /\ attempt' = 0
                                       /\ pc' = "call"
                                       /\ UNCHANGED <<exit, response, wf_record,
                                                      workflow_log, sink_workflows,
                                                      http>>
                                  ELSE /\ Finish(ResponseAt(nxt, ret), nxt, trail)
                                       /\ UNCHANGED <<stage, attempt>>
    /\ UNCHANGED <<max_retries, completion_threshold, requests, now, served,
                   api_key, query, scn, sleeps>>
    /\ UNCHANGED besidesWorkflow

\* _execute_with_retry: time.sleep(wait_time), then the next attempt

Sleep ==
    /\ pc = "sleep"
    /\ sleeps' = Append(sleeps, Backoff(attempt))
    /\ now' = now + Backoff(attempt)
    /\ attempt' = attempt + 1
    /\ pc' = "call"
    /\ UNCHANGED <<max_retries, completion_threshold, requests, served, api_key,
                   query, scn, stage, last_error, step_logs, intent,
                   completion_score, invocations, sink_steps, sink_workflows,
                   exit, response, wf_record, workflow_log, http>>
    /\ UNCHANGED besidesWorkflow

\* The answer is sent and the request's locals are gone

Respond ==
    /\ pc = "done"
    /\ pc' = "idle"
    /\ api_key' = "anonymous"
    /\ query' = "q1"
    /\ scn' = NoScenario
    /\ stage' = "route"
    /\ attempt' = 0
    /\ last_error' = ""
    /\ step_logs' = <<>>
    /\ intent' = ""
    /\ completion_score' = 0
    /\ invocations' = <<>>
    /\ sleeps' = <<>>
    /\ sink_steps' = <<>>
    /\ sink_workflows' = <<>>
    /\ exit' = "none"
    /\ response' = None
    /\ wf_record' = None
    /\ workflow_log' = None
    /\ http' = NoHttp
    /\ UNCHANGED <<max_retries, completion_threshold, requests, now, served>>
    /\ UNCHANGED besidesWorkflow

Next ==
    \/ Tick
    \/ Respond
    \/ \E c \in Clients, q \in Queries, s \in Scenarios : ProcessQuery(c, q, s)
    \/ Invoke
    \/ Sleep

Spec == Init /\ [][Next]_allVars

-----------------------------------------------------------------------------
(* VectorRetriever.retrieve and rerank (components/3.retriever.py).
   Input scores are in tenths; the weights are in tenths too, so the fused
   scores rerank returns are in hundredths. *)

MaxResults == 2
SemanticWeight == 7
KeywordWeight == 3
KeywordScore == 10

Texts == {"t1", "t2", "t3"}
SemanticScores == {0 - 5, 0, 5, 10}

SearchResult(text, metadata, score) ==
    [text |-> text, metadata |-> metadata, score |-> score]

\* What semantic_search can return: any texts with any similarity scores; the
\* metadata records the channel and the position the result was found at
SemanticResultLists ==
    UNION {{[i \in 1..n |-> SearchResult(f[i][1], <<"semantic", i>>, f[i][2])] :
               f \in [1..n -> Texts \X SemanticScores]} : n \in 0..MaxResults}

\* What keyword_search can return: every result has the score 1.0
KeywordResultLists ==
    UNION {{[i \in 1..n |-> SearchResult(f[i], <<"keyword", i>>, KeywordScore)] :
               f \in [1..n -> Texts]} : n \in 0..MaxResults}

\* The dict "merged", in insertion order: the position of a key, 0 if absent
KeyIndex(merged, text) ==
    IF \E i \in 1..Len(merged) : merged[i].text = text
    THEN CHOOSE i \in 1..Len(merged) : merged[i].text = text
    ELSE 0

PutSemanticAppending(merged, result) ==
    Append(merged, SearchResult(result.text, result.metadata,
                                result.score * SemanticWeight))

\* merged[result.text] = SearchResult(...): a key already there keeps its
\* place and gets the new value
PutSemantic(merged, result) ==
    LET entry == SearchResult(result.text, result.metadata,
                              result.score * SemanticWeight)
        i == KeyIndex(merged, result.text)
    IN  IF i = 0 THEN Append(merged, entry) ELSE [merged EXCEPT ![i] = entry]

AddKeywordReplacing(merged, result) ==
    LET i == KeyIndex(merged, result.text)
        entry == SearchResult(result.text, result.metadata,
                              result.score * KeywordWeight)
    IN  IF i = 0 THEN Append(merged, entry) ELSE [merged EXCEPT ![i] = entry]

\* The body of the loop over keyword_results
AddKeyword(merged, result) ==
    LET i == KeyIndex(merged, result.text)
    IN  IF i # 0
        THEN [merged EXCEPT ![i].score = @ + result.score * KeywordWeight]
        ELSE Append(merged, SearchResult(result.text, result.metadata,
                                         result.score * KeywordWeight))

RECURSIVE MergeSemantic(_, _)
MergeSemantic(merged, results) ==
    IF results = <<>> THEN merged
    ELSE MergeSemantic(PutSemantic(merged, Head(results)), Tail(results))

RECURSIVE MergeKeyword(_, _)
MergeKeyword(merged, results) ==
    IF results = <<>> THEN merged
    ELSE MergeKeyword(AddKeyword(merged, Head(results)), Tail(results))

InsertByScoreBeforeTies(sorted, entry) ==
    LET k == Cardinality({i \in 1..Len(sorted) : sorted[i].score > entry.score})
    IN  SubSeq(sorted, 1, k) \o <<entry>> \o SubSeq(sorted, k + 1, Len(sorted))

\* sorted(..., key=score, reverse=True) is stable: an entry goes behind every
\* entry whose score is at least its own
InsertByScore(sorted, entry) ==
    LET k == Cardinality({i \in 1..Len(sorted) : sorted[i].score >= entry.score})
    IN  SubSeq(sorted, 1, k) \o <<entry>> \o SubSeq(sorted, k + 1, Len(sorted))

RECURSIVE SortedByScore(_)
SortedByScore(entries) ==
    IF entries = <<>> THEN <<>>
    ELSE InsertByScore(SortedByScore(SubSeq(entries, 1, Len(entries) - 1)),
                       entries[Len(entries)])

rerank(semantic, keyword) ==
    SortedByScore(MergeKeyword(MergeSemantic(<<>>, semantic), keyword))

RerankInit ==
    /\ WorkflowParked
    /\ CheckerParked
    /\ ReformParked
    /\ CachesParked
    /\ GeneratorParked
    /\ IngestParked
    /\ ThreadsParked
    /\ LimiterParked
    /\ semantic_results \in SemanticResultLists
    /\ keyword_results \in KeywordResultLists
    /\ fused = <<>>
    /\ rr_pc = "ready"

\* retrieve: the two searches have returned, rerank fuses their results
Retrieve ==
    /\ rr_pc = "ready"
    /\ fused' = rerank(semantic_results, keyword_results)
    /\ rr_pc' = "done"
    /\ UNCHANGED <<semantic_results, keyword_results>>
    /\ UNCHANGED besidesRerank

RerankSpec == RerankInit /\ [][Retrieve]_allVars

-----------------------------------------------------------------------------
(* LLMCompletionChecker.check_completion and the sufficiency gate that reads
   its result (components/4.completion_checker.py, rag_workflow.py:88) *)

ScoreSlack == 3

\* What the provider can answer: a failure of one of four kinds, or an object
\* whose score is a number, inside the unit interval or outside it
CheckerReplies ==
    {[kind |-> k, score |-> 0] :
        k \in {"error", "not_json", "bad_score", "no_score"}}
    \cup {[kind |-> "score", score |-> x] :
              x \in (ScoreMin - ScoreSlack)..(ScoreMax + ScoreSlack)}

\* Settings.completion_threshold: ge=0.0, le=1.0
AllowedThresholds == ScoreMin..ScoreMax

CheckerInit ==
    /\ WorkflowParked
    /\ RerankParked
    /\ ReformParked
    /\ CachesParked
    /\ GeneratorParked
    /\ IngestParked
    /\ ThreadsParked
    /\ LimiterParked
    /\ ck_reply \in CheckerReplies
    /\ ck_threshold \in AllowedThresholds
    /\ ck_result = None
    /\ ck_next = "check"

\* completion_checker._execute: check_completion returns a float
Check ==
    /\ ck_next = "check"
    /\ ck_result' = [kind |-> "score", score |-> check_completion(ck_reply)]
    /\ ck_next' = "gate"
    /\ UNCHANGED <<ck_reply, ck_threshold>>
    /\ UNCHANGED besidesChecker

\* if completion_score < self.completion_threshold: return None, step_logs
Gate ==
    /\ ck_next = "gate"
    /\ ck_next' = AfterStage("check", [first |-> ck_result], ck_threshold)
    /\ UNCHANGED <<ck_reply, ck_threshold, ck_result>>
    /\ UNCHANGED besidesChecker

CheckerNext ==
    \/ Check
    \/ Gate

CheckerSpec == CheckerInit /\ [][CheckerNext]_allVars

-----------------------------------------------------------------------------
(* LLMQueryReformulator.reformulate and the QueryCache it reads and writes
   (components/2.reformulator.py, utils/cache.py). One query, and with it one
   cache file, is followed through a series of calls. *)

MaxCalls == 2
MaxClock == 2
TtlBound == 1
MinKeywords == 2
MaxKeywords == 6

\* str.split(): the maximal runs of characters that are not whitespace
RECURSIVE Tokens(_, _, _)
Tokens(text, word, words) ==
    IF text = <<>>
    THEN IF word = <<>> THEN words ELSE Append(words, word)
    ELSE IF Head(text) \in WhiteSpace
    THEN Tokens(Tail(text), <<>>,
                IF word = <<>> THEN words ELSE Append(words, word))
    ELSE Tokens(Tail(text), Append(word, Head(text)), words)

split(text) == Tokens(text, <<>>, <<>>)

\* seq[:n]
Prefix(seq, n) == SubSeq(seq, 1, IF Len(seq) < n THEN Len(seq) ELSE n)

\* Queries of 0, 1, 2 and MaxKeywords + 1 whitespace-separated tokens
OneWord == <<"w", "h", "y">>
TwoWords == <<" ", "i", "s", " ", " ", "i", "t", "\n">>
ManyWords == <<"a", " ", "c", " ", "e", " ", "f", " ", "i", " ", "j", " ", "l">>
ReformQueries == {<<>>, OneWord, TwoWords, ManyWords}

\* What the provider can answer
RefinedText == <<"r", "e", "f", "i", "n", "e", "d">>
ProviderKeywords(n) == [i \in 1..n |-> <<LowerLetters[i]>>]

ObjectReply(has_refined, keywords_kind, n) ==
    [kind |-> "object", has_refined |-> has_refined,
     keywords_kind |-> keywords_kind, keywords |-> ProviderKeywords(n)]

\* "error": the call raises; "not_json": json.loads raises; "not_object": the
\* JSON value has no get; an object may lack either field, hold null for
\* keywords, or list any number of keywords
ReformReplies ==
    {[kind |-> k, has_refined |-> FALSE, keywords_kind |-> "missing",
      keywords |-> <<>>] : k \in {"error", "not_json", "not_object"}}
    \cup {ObjectReply(TRUE, "list", n) :
              n \in {0, MinKeywords - 1, MinKeywords, MaxKeywords, MaxKeywords + 1}}
    \cup {ObjectReply(TRUE, "missing", 0), ObjectReply(TRUE, "null", 0),
          ObjectReply(FALSE, "list", MinKeywords)}

\* What the file system does to a read and to a write of the cache file
GetOutcomes == {"ok", "raises", "unreadable"}
SetOutcomes == {"ok", "fails"}

ReformulatedQuery(refined_text, keywords) ==
    [refined_text |-> refined_text, keywords |-> keywords]

IsExpiredAtTtl(entry, clock) ==
    \/ entry = None
    \/ clock - entry.mtime >= TtlBound

\* QueryCache._is_expired
IsExpired(entry, clock) ==
    \/ entry = None
    \/ clock - entry.mtime > TtlBound

\* QueryCache.get: stat of the file is outside the try, the read is inside
CacheGet(entry, clock, outcome) ==
    IF outcome = "raises" THEN [raised |-> TRUE, value |-> None]
    ELSE IF IsExpired(entry, clock) THEN [raised |-> FALSE, value |-> None]
    ELSE IF outcome = "unreadable" THEN [raised |-> FALSE, value |-> None]
    ELSE [raised |-> FALSE, value |-> entry.value]

\* QueryCache.set: a failed write is reported and swallowed
CacheSet(entry, value, clock, outcome) ==
    IF outcome = "ok"
    THEN [kind |-> "file", mtime |-> clock, value |-> value]
    ELSE entry

\* the fallback of the except branch
Fallback(q) == ReformulatedQuery(q, Prefix(split(q), MaxKeywords))

\* the body of the try: TRUE when it raises before final_result is built
ParseRaises(reply) ==
    \/ reply.kind # "object"
    \/ reply.keywords_kind = "null"

Parsed(q, reply) ==
    LET keywords == IF reply.keywords_kind = "missing" THEN <<>>
                    ELSE reply.keywords
        kept == IF Len(keywords) > MaxKeywords THEN Prefix(keywords, MaxKeywords)
                ELSE IF Len(keywords) < MinKeywords
                THEN Prefix(split(q), MaxKeywords)
                ELSE keywords
    IN  ReformulatedQuery(IF reply.has_refined THEN RefinedText ELSE q, kept)

\* One call: what it hands back and what it leaves in the cache file
reformulate(q, entry, clock, reply, get_outcome, set_outcome) ==
    LET cached == CacheGet(entry, clock, get_outcome)
    IN  IF cached.raised
        THEN [raised |-> TRUE, value |-> None, provider_called |-> FALSE,
              wrote |-> FALSE, entry |-> entry]
        ELSE IF cached.value # None
        THEN [raised |-> FALSE, value |-> cached.value,
              provider_called |-> FALSE, wrote |-> FALSE, entry |-> entry]
        ELSE IF ParseRaises(reply)
        THEN [raised |-> FALSE, value |-> Fallback(q), provider_called |-> TRUE,
              wrote |-> FALSE, entry |-> entry]
        ELSE [raised |-> FALSE, value |-> Parsed(q, reply),
              provider_called |-> TRUE, wrote |-> set_outcome = "ok",
              entry |-> CacheSet(entry, Parsed(q, reply), clock, set_outcome)]

ReformInit ==
    /\ WorkflowParked
    /\ RerankParked
    /\ CheckerParked
    /\ CachesParked
    /\ GeneratorParked
    /\ IngestParked
    /\ ThreadsParked
    /\ LimiterParked
    /\ rf_query \in ReformQueries
    /\ rf_clock = 0
    /\ rf_entry = None
    /\ rf_prev = None
    /\ rf_last = None
    /\ rf_n = 0

\* time.time() moves on between two calls
ReformTick ==
    /\ rf_clock < MaxClock
    /\ rf_clock' = rf_clock + 1
    /\ UNCHANGED <<rf_query, rf_entry, rf_prev, rf_last, rf_n>>
    /\ UNCHANGED besidesReform

\* What is kept of a call once another has followed it
Earlier(call) ==
    IF call = None THEN None
    ELSE [kind |-> "call", time |-> call.time, raised |-> call.raised,
          value |-> call.value, wrote |-> call.wrote]

\* The file is opened for reading only when it is there and has not expired,
\* and for writing only when the provider's answer was parsed
ReadAttempted == ~IsExpired(rf_entry, rf_clock)

WriteAttempted(reply, get_outcome) ==
    /\ ~ParseRaises(reply)
    /\ get_outcome # "raises"
    /\ ~ReadAttempted \/ get_outcome = "unreadable"

\* reformulator._execute(query)
Reformulate(reply, get_outcome, set_outcome) ==
    /\ rf_n < MaxCalls
    /\ get_outcome = "unreadable" => ReadAttempted
    /\ set_outcome = "fails" => WriteAttempted(reply, get_outcome)
    /\ LET call == reformulate(rf_query, rf_entry, rf_clock, reply,
                               get_outcome, set_outcome)
       IN  /\ rf_entry' = call.entry
           /\ rf_last' = [kind |-> "call", time |-> rf_clock,
                          raised |-> call.raised, value |-> call.value,
                          provider_called |-> call.provider_called,
                          wrote |-> call.wrote,
                          readable |-> get_outcome = "ok",
                          reply |-> IF call.provider_called THEN reply ELSE None]
    /\ rf_prev' = Earlier(rf_last)
    /\ rf_n' = rf_n + 1
    /\ UNCHANGED <<rf_query, rf_clock>>
    /\ UNCHANGED besidesReform

ReformNext ==
    \/ ReformTick
    \/ \E reply \in ReformReplies, g \in GetOutcomes, s \in SetOutcomes :
           Reformulate(reply, g, s)

ReformSpec == ReformInit /\ [][ReformNext]_allVars

-----------------------------------------------------------------------------
(* QueryCache and MemoryCache (utils/cache.py) given the same operations at
   the same times, both with the time to live TtlBound. Keys stand for their
   md5 digests; the file system serves every read and write. *)

CacheKeys == {"k1", "k2"}
CacheValues == {[kind |-> "value", of |-> "v1"], [kind |-> "value", of |-> "v2"]}

\* MemoryCache.get: the value and the dict it leaves
MemoryGet(cache, key, clock) ==
    IF cache[key] = None
    THEN [value |-> None, cache |-> cache]
    ELSE IF clock - cache[key].timestamp < TtlBound
    THEN [value |-> cache[key].value, cache |-> cache]
    ELSE [value |-> None, cache |-> [cache EXCEPT ![key] = None]]

\* MemoryCache.set
MemorySet(cache, key, value, clock) ==
    [cache EXCEPT ![key] = [kind |-> "pair", value |-> value,
                            timestamp |-> clock]]

CachesInit ==
    /\ WorkflowParked
    /\ RerankParked
    /\ CheckerParked
    /\ ReformParked
    /\ GeneratorParked
    /\ IngestParked
    /\ ThreadsParked
    /\ LimiterParked
    /\ cc_clock = 0
    /\ cc_files = [k \in CacheKeys |-> None]
    /\ cc_memory = [k \in CacheKeys |-> None]
    /\ cc_written = [k \in CacheKeys |-> None]
    /\ cc_last = None

CachesTick ==
    /\ cc_clock < MaxClock
    /\ cc_clock' = cc_clock + 1
    /\ UNCHANGED <<cc_files, cc_memory, cc_written, cc_last>>
    /\ UNCHANGED besidesCaches

\* set(key, value) on both caches
CachesSet(key, value) ==
    /\ cc_files' = [cc_files EXCEPT
                       ![key] = CacheSet(cc_files[key], value, cc_clock, "ok")]
    /\ cc_memory' = MemorySet(cc_memory, key, value, cc_clock)
    /\ cc_written' = [cc_written EXCEPT
                         ![key] = [kind |-> "set", value |-> value,
                                   time |-> cc_clock]]
    /\ cc_last' = [kind |-> "set", key |-> key, time |-> cc_clock,
                   file |-> None, memory |-> None]
    /\ UNCHANGED cc_clock
    /\ UNCHANGED besidesCaches

\* get(key) on both caches
CachesGet(key) ==
    /\ cc_memory' = MemoryGet(cc_memory, key, cc_clock).cache
    /\ cc_last' = [kind |-> "get", key |-> key, time |-> cc_clock,
                   file |-> CacheGet(cc_files[key], cc_clock, "ok").value,
                   memory |-> MemoryGet(cc_memory, key, cc_clock).value]
    /\ UNCHANGED <<cc_clock, cc_files, cc_written>>
    /\ UNCHANGED besidesCaches

CachesNext ==
    \/ CachesTick
    \/ \E key \in CacheKeys, value \in CacheValues : CachesSet(key, value)
    \/ \E key \in CacheKeys : CachesGet(key)

CachesSpec == CachesInit /\ [][CachesNext]_allVars

-----------------------------------------------------------------------------
(* LLMAnswerGenerator.generate_answer: the citations of the provider matched
   against the context (components/5.answer_generator.py) *)

MaxContext == 2
MaxCitations == 2
RelevanceDefault == 5
ConfidenceDefault == 5
ErrorConfidence == 0

\* Texts of context entries and quotes the provider may cite
ContextTexts == {<<"a", "c">>, <<"c", "e">>, <<"a", "c", "e">>}
Quotes == {<<>>, <<"c">>, <<"a", "c">>, <<"e", "a">>}

EmptyMetadata == <<>>

\* x in y, for two strings
Contains(text, quote) ==
    \E i \in 1..(Len(text) - Len(quote) + 1) :
        SubSeq(text, i, i + Len(quote) - 1) = quote

\* The context: SearchResults, each with a metadata of its own
ContextLists ==
    UNION {{[i \in 1..n |-> SearchResult(f[i], <<"context", i>>, 0)] :
               f \in [1..n -> ContextTexts]} : n \in 0..MaxContext}

\* One entry of the provider's "citations": it may lack the "text" key or
\* the "relevance_score" key
ProviderCites ==
    {[has_text |-> TRUE, text |-> q, has_relevance |-> TRUE,
      relevance_score |-> ScoreMax] : q \in Quotes}
    \cup {[has_text |-> TRUE, text |-> <<"c">>, has_relevance |-> FALSE,
           relevance_score |-> 0],
          [has_text |-> FALSE, text |-> <<>>, has_relevance |-> TRUE,
           relevance_score |-> ScoreMax]}

CiteLists ==
    UNION {[1..n -> ProviderCites] : n \in 0..MaxCitations}

\* "error": the call raises; "not_json": json.loads raises; an object holds
\* its citations and a confidence_score that is a number, missing or not a
\* number
GeneratorReplies ==
    {[kind |-> k, citations |-> <<>>, confidence |-> "missing"] :
        k \in {"error", "not_json"}}
    \cup {[kind |-> "object", citations |-> cs, confidence |-> c] :
              cs \in CiteLists, c \in {"number", "missing", "not_a_number"}}

Citation(text, metadata, relevance_score) ==
    [text |-> text, metadata |-> metadata, relevance_score |-> relevance_score]

MatchingContextLast(context, quote) ==
    LET hits == {i \in 1..Len(context) : Contains(context[i].text, quote)}
    IN  IF hits = {} THEN 0 ELSE CHOOSE i \in hits : \A j \in hits : j <= i

\* the inner loop: the first context entry whose text holds the quote, 0 if
\* there is none
MatchingContext(context, quote) ==
    LET hits == {i \in 1..Len(context) : Contains(context[i].text, quote)}
    IN  IF hits = {} THEN 0 ELSE CHOOSE i \in hits : \A j \in hits : i <= j

\* the body of the outer loop for one citation
MatchedCitation(context, cite) ==
    LET i == MatchingContext(context, cite.text)
    IN  Citation(cite.text,
                 IF i = 0 THEN EmptyMetadata ELSE context[i].metadata,
                 IF cite.has_relevance THEN cite.relevance_score
                 ELSE RelevanceDefault)

\* the try body raises: the call, json.loads, cite["text"] or float(...)
GenerationRaises(reply) ==
    \/ reply.kind # "object"
    \/ \E i \in 1..Len(reply.citations) : ~reply.citations[i].has_text
    \/ reply.confidence = "not_a_number"

generate_answer_from(context, reply) ==
    IF GenerationRaises(reply)
    THEN [kind |-> "RAGResponse", citations |-> <<>>,
          confidence_score |-> ErrorConfidence, error |-> TRUE]
    ELSE [kind |-> "RAGResponse",
          citations |-> [i \in 1..Len(reply.citations) |->
                            MatchedCitation(context, reply.citations[i])],
          confidence_score |-> IF reply.confidence = "missing"
                               THEN ConfidenceDefault ELSE ScoreMax,
          error |-> FALSE]

GeneratorInit ==
    /\ WorkflowParked
    /\ RerankParked
    /\ CheckerParked
    /\ ReformParked
    /\ CachesParked
    /\ IngestParked
    /\ ThreadsParked
    /\ LimiterParked
    /\ gn_context \in ContextLists
    /\ gn_reply \in GeneratorReplies
    /\ gn_response = None
    /\ gn_pc = "ready"

\* answer_generator._execute(query, context)
Generate ==
    /\ gn_pc = "ready"
    /\ gn_response' = generate_answer_from(gn_context, gn_reply)
    /\ gn_pc' = "done"
    /\ UNCHANGED <<gn_context, gn_reply>>
    /\ UNCHANGED besidesGenerator

GeneratorSpec == GeneratorInit /\ [][Generate]_allVars

-----------------------------------------------------------------------------
(* VectorRetriever.add_documents (components/3.retriever.py). A mapping is a
   function from its keys; the embedding provider and the store answer. *)

MaxDocuments == 2

DocumentTexts == {"A", "B"}
MetadataKeys == {"text", "source"}
MetadataValues == {"A", "B"}

\* Document.metadata: None or a mapping
Metadatas ==
    {None} \cup UNION {[keys -> MetadataValues] : keys \in SUBSET MetadataKeys}

Documents == [text : DocumentTexts, metadata : Metadatas]

DocumentLists == UNION {[1..n -> Documents] : n \in 0..MaxDocuments}

\* {**a, **b}: the entries of b win
Merged(a, b) ==
    [k \in (DOMAIN a) \cup (DOMAIN b) |-> IF k \in DOMAIN b THEN b[k] ELSE a[k]]

\* doc.metadata or {}
MetadataOrEmpty(metadata) == IF metadata = None THEN <<>> ELSE metadata

\* payload={"text": doc.text, **(doc.metadata or {})}
Payload(doc) ==
    Merged([k \in {"text"} |-> doc.text], MetadataOrEmpty(doc.metadata))

\* rest.PointStruct(id=str(uuid.uuid4()), vector=..., payload=...): the i-th
\* identifier drawn is written i
PointStruct(i, doc) ==
    [id |-> i, vector |-> [embedding_of |-> doc.text], payload |-> Payload(doc)]

IngestInit ==
    /\ WorkflowParked
    /\ RerankParked
    /\ CheckerParked
    /\ ReformParked
    /\ CachesParked
    /\ GeneratorParked
    /\ ThreadsParked
    /\ LimiterParked
    /\ in_documents \in DocumentLists
    /\ in_points = <<>>
    /\ in_pc = "ready"

\* add_documents(documents): one upsert with all the points
AddDocuments ==
    /\ in_pc = "ready"
    /\ in_points' = [i \in 1..Len(in_documents) |-> PointStruct(i, in_documents[i])]
    /\ in_pc' = "done"
    /\ UNCHANGED in_documents
    /\ UNCHANGED besidesIngest

IngestSpec == IngestInit /\ [][AddDocuments]_allVars

-----------------------------------------------------------------------------
(* Two threads on one MemoryCache (utils/cache.py), one statement of get at
   a time: the interpreter may switch threads between any two statements.
   clear and clear_expired have no caller and are left out; the eviction is
   the del of get. *)

Threads == {1, 2}

Idle == [op |-> "idle", key |-> None, value |-> None, timestamp |-> 0,
         outcome |-> None]

GetReturns(value) == [kind |-> "returned", value |-> value]
GetRaises(error) == [kind |-> "raised", error |-> error]

ThreadsInit ==
    /\ WorkflowParked
    /\ RerankParked
    /\ CheckerParked
    /\ ReformParked
    /\ CachesParked
    /\ GeneratorParked
    /\ IngestParked
    /\ LimiterParked
    /\ th_clock = 0
    /\ th_cache = [k \in CacheKeys |-> None]
    /\ th_pc = [t \in Threads |-> "idle"]
    /\ th_local = [t \in Threads |-> Idle]
    /\ th_written = {}

\* time.time() moves on
ThreadsTick ==
    /\ th_clock < MaxClock
    /\ th_clock' = th_clock + 1
    /\ UNCHANGED <<th_cache, th_pc, th_local, th_written>>
    /\ UNCHANGED besidesThreads

\* a thread calls get(key): it stands before "if cache_key in self.cache"
ThreadCallsGet(t, key) ==
    /\ th_pc[t] = "idle"
    /\ th_pc' = [th_pc EXCEPT ![t] = "get_in"]
    /\ th_local' = [th_local EXCEPT ![t] = [Idle EXCEPT !.op = "get",
                                                        !.key = key]]
    /\ UNCHANGED <<th_clock, th_cache, th_written>>
    /\ UNCHANGED besidesThreads

\* get: "if cache_key in self.cache", and "return None" when it is not
GetKeyIn(t) ==
    /\ th_pc[t] = "get_in"
    /\ IF th_cache[th_local[t].key] # None
       THEN /\ th_pc' = [th_pc EXCEPT ![t] = "get_read"]
            /\ UNCHANGED th_local
       ELSE /\ th_pc' = [th_pc EXCEPT ![t] = "done"]
            /\ th_local' = [th_local EXCEPT ![t].outcome = GetReturns(None)]
    /\ UNCHANGED <<th_clock, th_cache, th_written>>
    /\ UNCHANGED besidesThreads

\* get: "value, timestamp = self.cache[cache_key]", a KeyError when the
\* entry is gone
GetRead(t) ==
    /\ th_pc[t] = "get_read"
    /\ IF th_cache[th_local[t].key] # None
       THEN /\ th_pc' = [th_pc EXCEPT ![t] = "get_age"]
            /\ th_local' = [th_local EXCEPT
                   ![t].value = th_cache[th_local[t].key].value,
                   ![t].timestamp = th_cache[th_local[t].key].timestamp]
       ELSE /\ th_pc' = [th_pc EXCEPT ![t] = "done"]
            /\ th_local' = [th_local EXCEPT
                                ![t].outcome = GetRaises("KeyError")]
    /\ UNCHANGED <<th_clock, th_cache, th_written>>
    /\ UNCHANGED besidesThreads

\* get: "if time.time() - timestamp < self.ttl: return value"
GetAge(t) ==
    /\ th_pc[t] = "get_age"
    /\ IF th_clock - th_local[t].timestamp < TtlBound
       THEN /\ th_pc' = [th_pc EXCEPT ![t] = "done"]
            /\ th_local' = [th_local EXCEPT
                                ![t].outcome = GetReturns(th_local[t].value)]
       ELSE /\ th_pc' = [th_pc EXCEPT ![t] = "get_del"]
            /\ UNCHANGED th_local
    /\ UNCHANGED <<th_clock, th_cache, th_written>>
    /\ UNCHANGED besidesThreads

\* get: "del self.cache[cache_key]" and "return None", a KeyError when the
\* entry is gone
GetDel(t) ==
    /\ th_pc[t] = "get_del"
    /\ th_pc' = [th_pc EXCEPT ![t] = "done"]
    /\ IF th_cache[th_local[t].key] # None
       THEN /\ th_cache' = [th_cache EXCEPT ![th_local[t].key] = None]
            /\ th_local' = [th_local EXCEPT ![t].outcome = GetReturns(None)]
       ELSE /\ th_local' = [th_local EXCEPT
                                ![t].outcome = GetRaises("KeyError")]
            /\ UNCHANGED th_cache
    /\ UNCHANGED <<th_clock, th_written>>
    /\ UNCHANGED besidesThreads

\* a thread runs set(key, value): one store into the dict
ThreadSets(t, key, value) ==
    /\ th_pc[t] = "idle"
    /\ th_cache' = MemorySet(th_cache, key, value, th_clock)
    /\ th_written' = th_written \cup {<<key, value>>}
    /\ th_pc' = [th_pc EXCEPT ![t] = "done"]
    /\ th_local' = [th_local EXCEPT ![t] = [Idle EXCEPT
                        !.op = "set", !.key = key, !.value = value,
                        !.outcome = GetReturns(None)]]
    /\ UNCHANGED th_clock
    /\ UNCHANGED besidesThreads

\* the caller has the outcome; the thread is free for its next operation
ThreadReturns(t) ==
    /\ th_pc[t] = "done"
    /\ th_pc' = [th_pc EXCEPT ![t] = "idle"]
    /\ th_local' = [th_local EXCEPT ![t] = Idle]
    /\ UNCHANGED <<th_clock, th_cache, th_written>>
    /\ UNCHANGED besidesThreads

ThreadsNext ==
    \/ ThreadsTick
    \/ \E t \in Threads, key \in CacheKeys : ThreadCallsGet(t, key)
    \/ \E t \in Threads : GetKeyIn(t)
    \/ \E t \in Threads : GetRead(t)
    \/ \E t \in Threads : GetAge(t)
    \/ \E t \in Threads : GetDel(t)
    \/ \E t \in Threads, key \in CacheKeys, value \in CacheValues :
           ThreadSets(t, key, value)
    \/ \E t \in Threads : ThreadReturns(t)

ThreadsSpec == ThreadsInit /\ [][ThreadsNext]_allVars

-----------------------------------------------------------------------------
(* One RateLimiter (api.py) called on its own, over a span of time in which
   recorded times leave the window *)

LimiterInit ==
    /\ WorkflowParked
    /\ RerankParked
    /\ CheckerParked
    /\ ReformParked
    /\ CachesParked
    /\ GeneratorParked
    /\ IngestParked
    /\ ThreadsParked
    /\ lm_clock = 0
    /\ lm_requests = [c \in Clients |-> <<>>]
    /\ lm_admitted = [c \in Clients |-> <<>>]
    /\ lm_last = None

\* time.time() moves on between two calls
LimiterTick ==
    /\ lm_clock < MaxClock
    /\ lm_clock' = lm_clock + 1
    /\ UNCHANGED <<lm_requests, lm_admitted, lm_last>>
    /\ UNCHANGED besidesLimiter

\* rate_limiter.is_allowed(client_id)
IsAllowedCall(c) ==
    LET lim == is_allowed(lm_requests[c], lm_clock)
    IN  /\ lm_requests' = [lm_requests EXCEPT ![c] = lim.requests]
        /\ lm_admitted' =
               IF lim.allowed
               THEN [lm_admitted EXCEPT ![c] = Append(@, lm_clock)]
               ELSE lm_admitted
        /\ lm_last' = [kind |-> "call", client |-> c, time |-> lm_clock,
                       allowed |-> lim.allowed, before |-> lm_requests]
        /\ UNCHANGED lm_clock
        /\ UNCHANGED besidesLimiter

LimiterNext ==
    \/ LimiterTick
    \/ \E c \in Clients : IsAllowedCall(c)

LimiterSpec == LimiterInit /\ [][LimiterNext]_allVars

-----------------------------------------------------------------------------
(* Vocabulary of the claims *)

StageIndex(st) == CHOOSE i \in 1..Len(Stages) : Stages[i] = st

\* _execute has ended (the request it belongs to is complete)
RunEnded == pc = "done" /\ exit # "none"

Declined == exit \in {"declined_intent", "declined_context"}

CallsOf(st) == {i \in 1..Len(invocations) : invocations[i].stage = st}

RaisedCallsOf(st) == {i \in CallsOf(st) : invocations[i].raised}

GeneratorReturned ==
    \E i \in CallsOf("generate") : ~invocations[i].raised

\* the scenario of the run lets every component return at its first call
AllComponentsReturn == scn.reform_raises = 0 /\ scn.retrieve_raises = 0

RouterSaysAnswer == route_query(scn.router)[1] = "ANSWER"

CheckerScore == check_completion(scn.checker)

TrailNames == [i \in 1..Len(step_logs) |-> step_logs[i].step_name]

-----------------------------------------------------------------------------
\* C1: the stages are invoked in the order route, reformulate, retrieve, check,
\* generate, a stage only after the one before it returned and a stage again
\* only after it raised; when the router's intent is CLARIFY or REJECT no
\* later stage is invoked and the run returns no response with a trail that
\* holds the route StepLog alone.
C1_StageOrderAndIntentGate ==
    /\ Len(invocations) > 0 => invocations[1].stage = "route"
    /\ \A i \in 1..(Len(invocations) - 1) :
          IF invocations[i].raised
            THEN invocations[i + 1].stage = invocations[i].stage
            ELSE StageIndex(invocations[i + 1].stage)
                   = StageIndex(invocations[i].stage) + 1
    /\ intent \in {"CLARIFY", "REJECT"} =>
          /\ \A i \in 1..Len(invocations) : invocations[i].stage = "route"
          /\ exit = "declined_intent"
          /\ response = None
          /\ TrailNames = <<"route_query">>

C1_Witness ==
    /\ RunEnded
    /\ intent = "CLARIFY"
    /\ Len(step_logs) = 1
    /\ http.status = 400

\* C2: in a run whose components all return, the generator is invoked if and
\* only if the router returned ANSWER and the checker's score is not below
\* the threshold (a score equal to the threshold proceeds to generation).
C2_GeneratorIffSufficient ==
    (RunEnded /\ AllComponentsReturn) =>
        (CallsOf("generate") # {}
           <=> (RouterSaysAnswer /\ CheckerScore >= completion_threshold))

\* C3: when the router returns ANSWER, every component returns and the
\* checker's score is at or above the threshold, the run ends with the
\* generator's RAGResponse and a trail of five StepLogs.
C3_AnswerPathCompletes ==
    (RunEnded /\ RouterSaysAnswer /\ AllComponentsReturn
       /\ CheckerScore >= completion_threshold) =>
        /\ exit = "answered"
        /\ response.kind = "RAGResponse"
        /\ Len(step_logs) = 5
        /\ http.status = 200

\* C4: a run in which the checker's score is below the threshold is declined:
\* no response, a trail of the four StepLogs route, reformulate, retrieve,
\* check, and a WorkflowLog with success = false.
C4_InsufficientContextDeclines ==
    (RunEnded /\ RouterSaysAnswer /\ AllComponentsReturn
       /\ CheckerScore < completion_threshold) =>
        /\ exit = "declined_context"
        /\ response = None
        /\ Len(step_logs) = 4
        /\ wf_record.success = FALSE

\* C5: the retry wrapper calls a component at most max_retries times, never
\* again after a call that returned, and raises (the error of the last call)
\* only when max_retries calls have raised.
C5_RetryBounded ==
    /\ \A st \in StageSet :
          /\ Cardinality(CallsOf(st)) <= max_retries
          /\ \A i \in CallsOf(st) :
                ~invocations[i].raised => \A j \in CallsOf(st) : j <= i
    /\ pc \in {"call", "sleep"} => attempt < max_retries
    /\ exit = "exhausted" =>
          /\ Cardinality(RaisedCallsOf(stage)) = max_retries
          /\ CallsOf(stage) = RaisedCallsOf(stage)
          /\ last_error = ErrorOf(stage)
          /\ http.detail.message = last_error

C5_Witness ==
    /\ RunEnded
    /\ exit = "exhausted"
    /\ max_retries = 3
    /\ Cardinality(RaisedCallsOf("reformulate")) = 3

\* C6: every call of a component, one that raises included, appends one
\* StepLog, so at every exit the trail is as long as the number of calls.
C6_OneStepLogPerAttempt ==
    RunEnded => Len(step_logs) = Len(invocations)

C8_WorkflowAlwaysLogged ==
    RunEnded =>
        \E i \in 1..Len(sink_workflows) : sink_workflows[i].workflow_id = served

\* C9: a declined run does not raise: it returns no response and the trail,
\* and the front end answers with the declined signal carrying the
\* workflow_id, not with the internal-error outcome.
C9_DeclinedIsNotFailure ==
    (RunEnded /\ Declined) =>
        /\ response = None
        /\ workflow_log.kind = "WorkflowLog"
        /\ workflow_log.step_ids = step_logs
        /\ http.status = 400
        /\ http.detail.workflow_id = workflow_log.workflow_id
        /\ workflow_log.workflow_id = served

C9_Witness ==
    /\ RunEnded
    /\ exit = "declined_intent"
    /\ http = HttpDeclined(wf_record)
    /\ Len(sink_workflows) = 1

\* C10: when a stage has exhausted its retries the front end reports a hard
\* failure carrying the last error's message and the workflow_id of the run.
C10_FailureCarriesWorkflowId ==
    (RunEnded /\ exit = "exhausted") =>
        /\ http.status = 500
        /\ http.detail.message = last_error
        /\ "workflow_id" \in DOMAIN http.detail

-----------------------------------------------------------------------------
\* the text reads as the token: whitespace, the token's letters in either
\* case, whitespace
SameLetter(c, d) ==
    c = d \/ \E i \in 1..Len(LowerLetters) : c = LowerLetters[i] /\ d = UpperLetters[i]

ReadsAs(content, token) ==
    \E i \in 1..(Len(content) + 1) :
        /\ i + Len(token) - 1 <= Len(content)
        /\ \A k \in 1..Len(content) :
              IF k < i \/ k > i + Len(token) - 1
                THEN content[k] \in WhiteSpace
                ELSE SameLetter(content[k], token[k - i + 1])

RouterFailed == scn.router.kind = "error"

\* C11 (as claimed): a provider error during classification makes the
\* orchestrator call the classifier again, up to max_retries times, and then
\* fail the run as an exhausted stage without calling a later stage.
C11_ClassifierErrorRetried ==
    (RunEnded /\ RouterFailed) =>
        /\ Cardinality(CallsOf("route")) = max_retries
        /\ exit = "exhausted"
        /\ CallsOf("reformulate") = {}

\* C11 (amended): a provider error during classification never reaches the
\* orchestrator: the classifier is called once, returns ANSWER with a StepLog
\* of success = false, and the run goes on to the reformulator.
C11_ClassifierErrorSwallowed ==
    (RouterFailed /\ Len(invocations) >= 1) =>
        /\ Cardinality(CallsOf("route")) = 1
        /\ ~invocations[1].raised
        /\ intent = "ANSWER"
        /\ step_logs[1].success = FALSE
        /\ exit # "declined_intent"
        /\ exit = "exhausted" => stage # "route"
        /\ RunEnded => CallsOf("reformulate") # {}

C11_Witness ==
    /\ RunEnded
    /\ RouterFailed
    /\ Len(invocations) = 2
    /\ invocations[2].stage = "reformulate"
    /\ step_logs[1].error = "provider error"

\* C12: the classifier returns the variant its provider named (the reply
\* trimmed and upper-cased) with success = true, CLARIFY with success = false
\* and an error text for any other reply, and ANSWER with success = false
\* and the error text when the provider call fails; so the run goes on to the
\* reformulator after a provider failure and stops after an unknown token.
C12_ClassifyOutcomes ==
    Len(invocations) >= 1 =>
        LET r == scn.router
            log == step_logs[1]
        IN  /\ Len(step_logs) >= 1
            /\ log.step_name = "route_query"
            /\ IF r.kind = "error"
                 THEN /\ intent = "ANSWER" /\ ~log.success /\ log.error # ""
                      /\ RunEnded => CallsOf("reformulate") # {}
                 ELSE IF ReadsAs(r.content, TokANSWER)
                   THEN intent = "ANSWER" /\ log.success /\ log.error = ""
                 ELSE IF ReadsAs(r.content, TokCLARIFY)
                   THEN intent = "CLARIFY" /\ log.success /\ log.error = ""
                 ELSE IF ReadsAs(r.content, TokREJECT)
                   THEN intent = "REJECT" /\ log.success /\ log.error = ""
                 ELSE /\ intent = "CLARIFY" /\ ~log.success /\ log.error # ""
                      /\ exit = "declined_intent"
                      /\ CallsOf("reformulate") = {}

C12_Witness ==
    /\ RunEnded
    /\ scn.router.content = <<" ", "a", "n", "s", "w", "e", "r", "\n">>
    /\ intent = "ANSWER"
    /\ step_logs[1].success

\* C18: when the generator's provider throws on every call, the run (router
\* ANSWER, every component returning, score at or above the threshold) still
\* returns the generator's RAGResponse with confidence 0.0 to its caller.
C18_GeneratorFailureStillAnswers ==
    (RunEnded /\ RouterSaysAnswer /\ AllComponentsReturn
       /\ CheckerScore >= completion_threshold /\ scn.generator_fails) =>
        /\ exit = "answered"
        /\ response = generate_answer(TRUE)
        /\ response.confidence_score = 0
        /\ http.status = 200

-----------------------------------------------------------------------------
(* Claims about rerank *)

TextsOf(results) == {results[i].text : i \in 1..Len(results)}

DistinctTexts(results) ==
    \A i, j \in 1..Len(results) : results[i].text = results[j].text => i = j

SemanticScoreOf(text) ==
    LET i == CHOOSE i \in 1..Len(semantic_results) :
                 semantic_results[i].text = text
    IN  semantic_results[i].score

FusedScoresOf(text) ==
    {fused[i].score : i \in {j \in 1..Len(fused) : fused[j].text = text}}

\* C19: when the texts are distinct within each input list, a text found only
\* by semantic search is fused to 0.7 times its semantic score, a text found
\* only by keyword search to 0.3, and a text found by both to 0.7 times its
\* semantic score plus 0.3
C19_FusedScores ==
    (rr_pc = "done" /\ DistinctTexts(semantic_results)
                    /\ DistinctTexts(keyword_results)) =>
        \A text \in TextsOf(semantic_results) \cup TextsOf(keyword_results) :
            FusedScoresOf(text) =
                IF text \notin TextsOf(keyword_results)
                THEN {SemanticWeight * SemanticScoreOf(text)}
                ELSE IF text \notin TextsOf(semantic_results)
                THEN {KeywordWeight * KeywordScore}
                ELSE {SemanticWeight * SemanticScoreOf(text)
                          + KeywordWeight * KeywordScore}

C19_Witness ==
    /\ rr_pc = "done"
    /\ DistinctTexts(semantic_results)
    /\ DistinctTexts(keyword_results)
    /\ TextsOf(semantic_results) \ TextsOf(keyword_results) # {}
    /\ TextsOf(keyword_results) \ TextsOf(semantic_results) # {}
    /\ TextsOf(semantic_results) \cap TextsOf(keyword_results) # {}

\* C20: the list rerank returns has each distinct text of its two inputs
\* exactly once: no text twice, no input text dropped, no text invented
C20_EachTextOnce ==
    rr_pc = "done" =>
        /\ DistinctTexts(fused)
        /\ TextsOf(fused) = TextsOf(semantic_results) \cup TextsOf(keyword_results)

C20_Witness ==
    /\ rr_pc = "done"
    /\ ~DistinctTexts(semantic_results)
    /\ ~DistinctTexts(keyword_results)
    /\ TextsOf(semantic_results) \cap TextsOf(keyword_results) # {}
    /\ Len(fused) = 1

-----------------------------------------------------------------------------
(* Claims about the completion checker *)

CheckerFailed == ck_reply.kind \in {"error", "not_json", "no_score"}

\* C16: whenever the checker fails (the call raises, the reply is not JSON,
\* or the object has no score field) check returns the neutral default 0.5
C16_FailureGivesNeutralDefault ==
    (ck_next # "check" /\ CheckerFailed) => ck_result.score = CheckerDefault

\* C17: under the default threshold a checker failure leaves the gate open
\* both ways: the run may go on to generation and it may be declined
C17_FailureDoesNotDecideGate ==
    (ck_next = "gate" /\ CheckerFailed /\ ck_threshold = DefaultThreshold) =>
        /\ ENABLED (Gate /\ ck_next' = "generate")
        /\ ENABLED (Gate /\ ck_next' = "declined_context")

-----------------------------------------------------------------------------
(* Claims about the reformulator and its cache *)

Called(call) == call.kind = "call"

Handed(call) == Called(call) /\ ~call.raised

\* the provider was asked and its answer could not be used as it stands
ProviderLetDown(call) ==
    /\ Called(call)
    /\ call.provider_called
    /\ \/ call.reply.kind # "object"
       \/ call.reply.keywords_kind # "list"
       \/ ~call.reply.has_refined

\* C13: every ReformulatedQuery reformulate returns, from the provider, from
\* the fallback or from the cache, has at least 2 and at most 6 keywords
C13_KeywordCountInRange ==
    Handed(rf_last) =>
        /\ Len(rf_last.value.keywords) >= MinKeywords
        /\ Len(rf_last.value.keywords) <= MaxKeywords

C15_NeverRaisesAlwaysFallsBack ==
    Called(rf_last) =>
        /\ ~rf_last.raised
        /\ ProviderLetDown(rf_last) => rf_last.value = Fallback(rf_query)

-----------------------------------------------------------------------------
(* Claims about the order and the bias of the fusion *)

FirstIn(results, text) ==
    CHOOSE i \in 1..Len(results) :
        /\ results[i].text = text
        /\ \A j \in 1..(i - 1) : results[j].text # text

\* When the text was first met: the semantic results are read first, the
\* keyword results after them
Discovered(text) ==
    IF text \in TextsOf(semantic_results)
    THEN FirstIn(semantic_results, text)
    ELSE Len(semantic_results) + FirstIn(keyword_results, text)

\* C21: the fused list is ordered by fused score, non-increasing, and entries
\* of equal score stand in the order they were discovered: semantic results
\* before keyword-only ones, each channel in its own order
C21_SortedAndStable ==
    rr_pc = "done" =>
        \A i, j \in 1..Len(fused) :
            i < j =>
                /\ fused[i].score >= fused[j].score
                /\ fused[i].score = fused[j].score =>
                       Discovered(fused[i].text) < Discovered(fused[j].text)

C21_Witness ==
    /\ rr_pc = "done"
    /\ \E i, j \in 1..Len(fused) :
           /\ i < j
           /\ fused[i].score = fused[j].score
           /\ fused[i].text \in TextsOf(semantic_results)
           /\ fused[j].text \notin TextsOf(semantic_results)
    /\ \E i, j \in 1..Len(fused) : fused[i].score > fused[j].score

\* C30: the fusion is left-biased: a fused entry has the metadata of the
\* first result that brought its text (the semantic one when both channels
\* have it) and its score counts the first occurrence in each channel, once
C30_LeftBiased ==
    rr_pc = "done" =>
        \A i \in 1..Len(fused) :
            LET text == fused[i].text
                in_semantic == text \in TextsOf(semantic_results)
                in_keyword == text \in TextsOf(keyword_results)
                semantic == semantic_results[FirstIn(semantic_results, text)]
                keyword == keyword_results[FirstIn(keyword_results, text)]
            IN  /\ fused[i].metadata =
                       IF in_semantic THEN semantic.metadata ELSE keyword.metadata
                /\ fused[i].score =
                       (IF in_semantic THEN SemanticWeight * semantic.score ELSE 0)
                       + (IF in_keyword THEN KeywordWeight * keyword.score ELSE 0)

-----------------------------------------------------------------------------
(* Claims about the two caches *)

\* What a get of the key must return by the most recent set of that key:
\* "value" within the time to live, "absent" past it; at an age of exactly
\* the time to live the entry counts as expired
Expected(key, clock) ==
    IF cc_written[key] = None THEN None
    ELSE IF clock - cc_written[key].time < TtlBound THEN cc_written[key].value
    ELSE None

\* C22: the two caches are interchangeable: after the same sets and gets at
\* the same times a get returns the same from both, the value of the most
\* recent set of the key while its age is below the TTL and absent from an
\* age of exactly the TTL on
C22_CachesInterchangeable ==
    (cc_last # None /\ cc_last.kind = "get") =>
        /\ cc_last.file = cc_last.memory
        /\ cc_last.memory = Expected(cc_last.key, cc_last.time)

-----------------------------------------------------------------------------
(* Claims about concurrency, the backoff and the log sink *)

\* C23: while a run sleeps in a retry backoff, another submitted request can
\* take its first step
C23_OthersRunDuringBackoff ==
    (pc = "sleep" /\ served < MaxRequests /\ now <= MaxTime) =>
        ENABLED (\E c \in Clients, q \in Queries, s \in Scenarios :
                    ProcessQuery(c, q, s))

\* the number of the attempt that was the i-th call, counted from 0 within
\* its stage
AttemptOf(i) ==
    Cardinality({j \in 1..(i - 1) : invocations[j].stage = invocations[i].stage})

\* the raised calls that a sleep has followed
SleptAfter ==
    {i \in 1..Len(invocations) :
        /\ invocations[i].raised
        /\ i < Len(invocations) \/ pc = "call"}

\* C25: after the failed attempt k the wrapper waits exactly 2^k seconds; it
\* does not sleep after an attempt that returned nor after the last failed
\* attempt, so a stage that exhausts N attempts has slept N-1 times
C25_ExponentialBackoff ==
    /\ Len(sleeps) = Cardinality(SleptAfter)
    /\ \A i \in SleptAfter :
          sleeps[Cardinality({j \in SleptAfter : j <= i})] = 2 ^ AttemptOf(i)
    /\ exit = "exhausted" =>
          /\ Len(sleeps) = max_retries - 1
          /\ \A k \in 1..Len(sleeps) : sleeps[k] = 2 ^ (k - 1)

C25_Witness ==
    /\ RunEnded
    /\ exit = "exhausted"
    /\ max_retries = MaxRetries
    /\ Len(sleeps) = MaxRetries - 1
    /\ sleeps[Len(sleeps)] = 2 ^ (MaxRetries - 2)

-----------------------------------------------------------------------------
\* C26: whatever the provider answers, a score below 0 or above 1 included,
\* the value check returns lies in the closed interval [0, 1]
C26_ScoreInUnitInterval ==
    ck_result # None =>
        /\ ck_result.score >= ScoreMin
        /\ ck_result.score <= ScoreMax

C26_Witness ==
    /\ ck_result # None
    /\ ck_reply.kind = "score"
    /\ ck_reply.score > ScoreMax
    /\ ck_result.score = ScoreMax

-----------------------------------------------------------------------------
(* Claims about the citations *)

\* the i-th citation of the response is the provider's i-th citation with
\* the metadata of the first context entry that holds its quote, or with
\* empty metadata when no entry holds it
CitationMatched(i) ==
    LET quote == gn_reply.citations[i].text
        cited == gn_response.citations[i]
    IN  /\ cited.text = quote
        /\ \/ /\ \A j \in 1..Len(gn_context) : ~Contains(gn_context[j].text, quote)
              /\ cited.metadata = EmptyMetadata
           \/ \E j \in 1..Len(gn_context) :
                 /\ Contains(gn_context[j].text, quote)
                 /\ \A k \in 1..(j - 1) : ~Contains(gn_context[k].text, quote)
                 /\ cited.metadata = gn_context[j].metadata

ProviderCited == gn_reply.kind = "object"

\* C27 as stated: whatever the provider returned, the response has as many
\* citations in the same order, each with the metadata of the first context
\* entry holding its quote or with empty metadata
C27_EveryCitationMatched ==
    (gn_pc = "done" /\ ProviderCited) =>
        /\ Len(gn_response.citations) = Len(gn_reply.citations)
        /\ \A i \in 1..Len(gn_reply.citations) : CitationMatched(i)

\* C27 amended: when generation does not fail the response has the
\* provider's citations in number and order, each matched as above; when it
\* fails the response has no citations
C27_CitationsMatchedUnlessFailed ==
    gn_pc = "done" =>
        IF gn_response.error
        THEN gn_response.citations = <<>>
        ELSE /\ Len(gn_response.citations) = Len(gn_reply.citations)
             /\ \A i \in 1..Len(gn_reply.citations) : CitationMatched(i)

C27_Witness ==
    /\ gn_pc = "done"
    /\ ~gn_response.error
    /\ Len(gn_response.citations) = MaxCitations
    /\ Len(gn_context) > 1
    /\ \E i \in 1..Len(gn_response.citations) :
           /\ gn_response.citations[i].metadata = gn_context[1].metadata
           /\ Contains(gn_context[Len(gn_context)].text, gn_reply.citations[i].text)
    /\ \E i \in 1..Len(gn_response.citations) :
           gn_response.citations[i].metadata = EmptyMetadata

-----------------------------------------------------------------------------
\* C28: add_documents upserts one point per document, the identifiers
\* pairwise distinct, and each point's payload has the document's text in
\* its text field and the document's other metadata entries beside it, also
\* when the metadata has a key named text
C28_OnePointPerDocument ==
    in_pc = "done" =>
        /\ Len(in_points) = Len(in_documents)
        /\ \A i, j \in 1..Len(in_points) : in_points[i].id = in_points[j].id => i = j
        /\ \A i \in 1..Len(in_points) :
              LET doc == in_documents[i]
                  payload == in_points[i].payload
              IN  /\ payload["text"] = doc.text
                  /\ \A k \in DOMAIN MetadataOrEmpty(doc.metadata) \ {"text"} :
                        /\ k \in DOMAIN payload
                        /\ payload[k] = doc.metadata[k]

-----------------------------------------------------------------------------
(* Claim about threads sharing the cache *)

-----------------------------------------------------------------------------
(* Claim about the rate limiter *)

\* the admissions of client c at times a..b
AdmittedIn(c, a, b) ==
    {i \in 1..Len(lm_admitted[c]) :
        a <= lm_admitted[c][i] /\ lm_admitted[c][i] <= b}

\* the admissions of client c before the last call
AdmittedBefore(c) ==
    IF lm_last.client = c /\ lm_last.allowed
    THEN SubSeq(lm_admitted[c], 1, Len(lm_admitted[c]) - 1)
    ELSE lm_admitted[c]

IsSuffix(s, whole) ==
    /\ Len(s) <= Len(whole)
    /\ s = SubSeq(whole, Len(whole) - Len(s) + 1, Len(whole))

\* C31: after any sequence of is_allowed calls a client has at most
\* max_requests admissions in any interval shorter than the window; the
\* recorded times are admissions only, so a rejected request consumes no
\* quota; and a call is decided by the admissions of its own client and
\* leaves the records of the other clients as they were
C31_QuotaPerClientWindow ==
    /\ \A c \in Clients, a \in 0..MaxClock, b \in 0..MaxClock :
           (a <= b /\ b - a < WindowBound) =>
               Cardinality(AdmittedIn(c, a, b)) <= QuotaBound
    /\ \A c \in DOMAIN lm_requests : IsSuffix(lm_requests[c], lm_admitted[c])
    /\ lm_last # None =>
           /\ lm_last.allowed <=>
                  Len(Live(AdmittedBefore(lm_last.client), lm_last.time,
                           WindowBound)) < QuotaBound
           /\ \A d \in Clients \ {lm_last.client} :
                  lm_requests[d] = lm_last.before[d]

\* a client is rejected after its window has slid past an earlier admission,
\* while the other client holds an admission of its own
C31_Witness ==
    /\ lm_last # None
    /\ ~lm_last.allowed
    /\ Len(lm_requests[lm_last.client]) < Len(lm_admitted[lm_last.client])
    /\ \E d \in Clients \ {lm_last.client} : Len(lm_admitted[d]) > 0

====
